---- MODULE Spec2Model ----
(***************************************************************************)
(* Model of rep3.py, the interactive writeup generator: the document model *)
(* (WriteupGenerator), the menu loop of main(), the folder navigator, the  *)
(* publisher, and the two pure text functions (flag redaction and the      *)
(* reference linker).                                                      *)
(*                                                                         *)
(* Text is a sequence of atoms.  An atom is a one-character string, or an  *)
(* opaque chunk of characters none of which the program inspects (a file   *)
(* name such as "/n.png", the word "machine_image").  Python's None is the *)
(* text <<"None">>, which no input can produce.                            *)
(***************************************************************************)
EXTENDS Integers, Sequences, FiniteSets, TLC

VARIABLES
    pc,          \* where the session waits for input, or "done"
    outcome,     \* how the session ended: "" while running
    title,       \* self.title
    images,      \* self.images: sequence of <<name, path>>
    steps,       \* self.steps: sequence of <<subtitle, description, oneliner, image_name>>
    flags,       \* self.flags
    entries,     \* self.entries: sequence of <<type, value>>
    markdown,    \* self.markdown: the sequence of pieces appended to the string
    caller,      \* who called add_machine_image: "menu" or "edit_steps"
    index,       \* the argument of edit_description / edit_flag (0-based)
    pending,     \* add_description's locals while it prompts for the image path
    nav_stack,   \* call stack of recursive_folder_selection: its base_path arguments
    written,     \* files written by generate_writeup: sequence of <<filename, content>>
    copied,      \* files copied by upload_to_github: sequence of <<folder, filename>>
    git_log,     \* git commands run by upload_to_github: sequence of <<command, succeeded>>
    repo_path,   \* the repository path main() got from get_repo_path
    target_folder, \* what get_target_folder returned, None before
    ops,         \* number of mutating operations performed so far
    inp,         \* the lines read by the last step: <<prompt, line, ...>>
    arg,         \* argument of the pure function under test
    result       \* its result

vars == <<pc, outcome, title, images, steps, flags, entries, markdown, caller,
          index, pending, nav_stack, written, copied, git_log, repo_path,
          target_folder, ops, inp, arg, result>>

doc == <<title, images, steps, flags, entries, markdown>>

\* the locals of the handlers that wait for more input
locals == <<caller, index, pending>>

\* what the finish handler produces
published == <<nav_stack, written, copied, git_log, target_folder>>

fn == <<arg, result>>

\* ------------------------------------------------------------------ bounds

\* mutating operations in one session
MaxOps == 3

\* length of the flags given to the redaction function
MaxFlagLen == 4

\* length of the lines given to the reference linker
MaxLineLen == 4

\* ------------------------------------------------------------ text helpers

None == <<"None">>

\* Python truthiness of a str-or-None value
Truthy(x) == x # None /\ x # <<>>

\* x or y
Or(x, y) == IF Truthy(x) THEN x ELSE y

Whitespace == {" ", "\t"}

RECURSIVE LStrip(_)
LStrip(s) ==
    IF s # <<>> /\ Head(s) \in Whitespace THEN LStrip(Tail(s)) ELSE s

RECURSIVE RStrip(_)
RStrip(s) ==
    IF s # <<>> /\ s[Len(s)] \in Whitespace THEN RStrip(SubSeq(s, 1, Len(s) - 1)) ELSE s

\* str.strip()
Strip(s) == RStrip(LStrip(s))

LowerChar(c) ==
    CASE c = "A" -> "a" [] c = "B" -> "b" [] c = "F" -> "f" [] c = "Q" -> "q"
      [] c = "S" -> "s" [] c = "T" -> "t" [] c = "Y" -> "y" [] c = "N" -> "n"
      [] OTHER -> c

UpperChar(c) ==
    CASE c = "a" -> "A" [] c = "b" -> "B" [] c = "f" -> "F" [] c = "q" -> "Q"
      [] c = "s" -> "S" [] c = "t" -> "T" [] c = "y" -> "Y" [] c = "n" -> "N"
      [] OTHER -> c

\* str.lower()
Lower(s) == [i \in 1..Len(s) |-> LowerChar(s[i])]

\* str.upper()
Upper(s) == [i \in 1..Len(s) |-> UpperChar(s[i])]

\* str.replace(' ', '_')
ReplaceSpaces(s) == [i \in 1..Len(s) |-> IF s[i] = " " THEN "_" ELSE s[i]]

\* str.find(c): 0-based index of the first c, -1 when absent
RECURSIVE FindFrom(_, _, _)
FindFrom(s, c, i) ==
    IF i > Len(s) THEN -1
    ELSE IF s[i] = c THEN i - 1
    ELSE FindFrom(s, c, i + 1)

Find(s, c) == FindFrom(s, c, 1)

\* s[a:b] for 0 <= a, 0 <= b (empty when a >= b)
Slice(s, a, b) ==
    LET hi == IF b > Len(s) THEN Len(s) ELSE b
    IN  IF a >= hi THEN <<>> ELSE SubSeq(s, a + 1, hi)

\* whether s starts with pat at 1-based position i
StartsAt(s, pat, i) ==
    /\ i + Len(pat) - 1 <= Len(s)
    /\ \A k \in 1..Len(pat) : s[i + k - 1] = pat[k]

\* str.replace(old, new) for non-empty old: every non-overlapping occurrence, left to right
RECURSIVE ReplaceFrom(_, _, _, _)
ReplaceFrom(s, old, new, i) ==
    IF i > Len(s) THEN <<>>
    ELSE IF StartsAt(s, old, i) THEN new \o ReplaceFrom(s, old, new, i + Len(old))
    ELSE <<s[i]>> \o ReplaceFrom(s, old, new, i + 1)

Replace(s, old, new) == ReplaceFrom(s, old, new, 1)

DigitChars == {"0", "1", "2", "3", "4", "5", "6", "7", "8", "9"}

\* characters for which str.isdigit() is true and int() raises ValueError
\* ("sup2" stands for the superscript two, U+00B2)
OtherDigitChars == {"sup2"}

\* str.isdigit()
IsDigit(s) == s # <<>> /\ \A i \in 1..Len(s) : s[i] \in DigitChars \cup OtherDigitChars

DigitValue(c) ==
    CASE c = "0" -> 0 [] c = "1" -> 1 [] c = "2" -> 2 [] c = "3" -> 3 [] c = "4" -> 4
      [] c = "5" -> 5 [] c = "6" -> 6 [] c = "7" -> 7 [] c = "8" -> 8 [] c = "9" -> 9

\* whether int(s) returns (it strips whitespace); otherwise it raises ValueError
IntParses(s) ==
    LET t == Strip(s) IN t # <<>> /\ \A i \in 1..Len(t) : t[i] \in DigitChars

RECURSIVE IntOfDigits(_)
IntOfDigits(t) ==
    IF t = <<>> THEN 0
    ELSE 10 * IntOfDigits(SubSeq(t, 1, Len(t) - 1)) + DigitValue(t[Len(t)])

\* int(s), where IntParses(s)
ToInt(s) == IntOfDigits(Strip(s))

\* str(n) for 0 <= n <= 9
DigitText(n) == <<CHOOSE c \in DigitChars : DigitValue(c) = n>>

\* x in s
InSeq(x, s) == \E i \in 1..Len(s) : s[i] = x

\* ------------------------------------------------------------- environment

MACHINE_IMAGE == <<"machine_image">>

Home == "/home"

\* os.path.expanduser(path)
ExpandUser(p) == IF p # <<>> /\ Head(p) = "~" THEN <<Home>> \o Tail(p) ELSE p

\* the regular files of the file system
Files == {<<Home, "/m.png">>, <<"/n.png">>}

\* os.path.isfile(path)
IsFile(p) == p \in Files

RepoRoot == <<"/repo">>

\* os.path.isdir(path) and os.path.exists(os.path.join(path, ".git"))
IsRepo(p) == p = RepoRoot

\* os.path.join(base, name)
Join(base, name) == base \o <<name>>

\* the subdirectories os.listdir(base_path) yields, in its order; the repository
\* is a linked worktree (.git is a file) holding /htb/easy
Subdirs(base_path) ==
    IF base_path = RepoRoot THEN <<"/htb">>
    ELSE IF base_path = Join(RepoRoot, "/htb") THEN <<"/easy">>
    ELSE <<>>

\* ------------------------------------------------------------------ inputs

RepoInputs == {<<"/repo", " ">>, <<"/tmp">>}

MenuInputs == {<<"1">>, <<"2">>, <<"3">>, <<"4">>, <<"5">>, <<"f">>, <<"Q">>, <<"7">>, <<" ", "F">>}

TitleInputs == {<<" ">>, <<" ", "A">>, <<"B">>}

MachinePathInputs == {<<"~", "/m.png">>, <<"/n.png">>, <<"/missing">>}

StepPathInputs == {<<"/n.png", " ">>, <<"/missing">>}

ImageNameInputs == {<<>>, MACHINE_IMAGE}

SubtitleInputs == {<<"S">>}

\* the lines typed before END
DescriptionInputs == {<< <<"[", "a", "]">> >>}

UrlInputs == {<<"u">>}

YesNoInputs == {<<"Y">>, <<"n">>}

OnelinerInputs == {<<"c">>}

FlagInputs == {<<" ">>, <<"a", "b", "c", " ">>}

ConfirmInputs == {<<"y">>, <<"Y">>, <<"n">>, <<" ", "y">>}

EditSubtitleInputs == {<<>>, <<"T">>}

EditDescriptionInputs == {<<>>, << <<"x">> >>}

EditOnelinerInputs == {<<>>, <<"d">>}

EditImageAnswers == {<<"y">>, <<"n">>, <<>>}

EditPathInputs == {<<>>, <<"/n.png">>, <<"/missing">>}

EditFlagInputs == {<<>>, <<"x", "y">>}

\* choices of the Edit Steps list: b, entry numbers, and three invalid lines
EditStepsInputs ==
    {<<"B">>, <<"0">>, <<"x">>, <<"sup2">>} \cup {DigitText(n) : n \in 1..(MaxOps + 1)}

SubmenuInputs == {<<"B">>, <<"1">>, <<"2">>, <<"3">>, <<"4">>, <<"x">>}

NavInputs == {<<"S">>, <<"b">>, <<"1">>, <<"2">>, <<"3">>, <<"x">>}

\* ---------------------------------------------------------- flag redaction

Stars(n) == [i \in 1..n |-> "*"]

\* mutant of Redact: the visible half is rounded up
Redact_ceil(flag) ==
    LET flag_length == Len(flag)
        visible == (flag_length + 1) \div 2
    IN  Slice(flag, 0, visible) \o Stars(flag_length - visible)

\* blurred = flag[:flag_length // 2] + "*" * (flag_length - flag_length // 2)
Redact(flag) ==
    LET flag_length == Len(flag)
    IN  Slice(flag, 0, flag_length \div 2) \o Stars(flag_length - flag_length \div 2)

\* ---------------------------------------------------------- reference linker

\* the while loop of process_references: the words found in current_text,
\* appended to words_to_process
RECURSIVE ScanWords(_, _)
ScanWords(current_text, words_to_process) ==
    IF InSeq("[", current_text) /\ InSeq("]", current_text)
    THEN LET start == Find(current_text, "[")
             end == Find(current_text, "]")
             word == Slice(current_text, start + 1, end)
             words == IF InSeq(word, words_to_process)
                      THEN words_to_process
                      ELSE Append(words_to_process, word)
         IN  ScanWords(Slice(current_text, end + 1, Len(current_text)), words)
    ELSE words_to_process

\* the final loop of process_references: each [word] becomes [word](url)
RECURSIVE LinkWords(_, _, _)
LinkWords(text, words, url) ==
    IF words = <<>> THEN text
    ELSE LinkWords(Replace(text, <<"[">> \o Head(words) \o <<"]">>,
                           <<"[">> \o Head(words) \o <<"]", "(">> \o url \o <<")">>),
                   Tail(words), url)

\* process_references(text), every URL prompt answered with url: the words it
\* prompts for, in order, and the text it returns
process_references(text, url) ==
    LET words == ScanWords(text, <<>>)
    IN  [prompts |-> words, text |-> LinkWords(text, words, url)]

\* the description loop: every line typed goes through process_references
ProcessLines(lines, url) ==
    [i \in 1..Len(lines) |-> process_references(lines[i], url).text]

\* ---------------------------------------------------------------- rendering

MachineBlock == <<"machine_image_block">>

RECURSIVE MachineBlocks(_)
MachineBlocks(imgs) ==
    IF imgs = <<>> THEN <<>>
    ELSE (IF Head(imgs)[1] = MACHINE_IMAGE THEN <<MachineBlock>> ELSE <<>>)
         \o MachineBlocks(Tail(imgs))

StepBlocks(step) ==
    << <<"subtitle", step[1]>>, <<"description", step[2]>> >>
    \o (IF Truthy(step[3]) THEN << <<"oneliner", step[3]>> >> ELSE <<>>)
    \o (IF Truthy(step[4]) THEN << <<"image_block", step[4], step[1]>> >> ELSE <<>>)

RECURSIVE AllStepBlocks(_)
AllStepBlocks(sts) ==
    IF sts = <<>> THEN <<>> ELSE StepBlocks(Head(sts)) \o AllStepBlocks(Tail(sts))

FlagBlocks(fls) ==
    IF fls = <<>> THEN <<>>
    ELSE << <<"flags_header">> >> \o [i \in 1..Len(fls) |-> <<"flag_block", Redact(fls[i])>>]

\* the string regenerate_markdown builds, as the sequence of its pieces
Render(t, imgs, sts, fls) ==
    (IF t # <<>> THEN << <<"title", t>> >> ELSE <<>>)
    \o MachineBlocks(imgs) \o AllStepBlocks(sts) \o FlagBlocks(fls)

Footer == <<"footer">>

\* ----------------------------------------------------------- document model

\* the WriteupGenerator object
Doc ==
    [title |-> title, images |-> images, steps |-> steps, flags |-> flags,
     entries |-> entries, markdown |-> markdown]

SetDoc(d) ==
    /\ title' = d.title
    /\ images' = d.images
    /\ steps' = d.steps
    /\ flags' = d.flags
    /\ entries' = d.entries
    /\ markdown' = d.markdown

\* WriteupGenerator.__init__
NewDoc ==
    [title |-> <<>>, images |-> <<>>, steps |-> <<>>, flags |-> <<>>,
     entries |-> <<>>, markdown |-> <<>>]

regenerate_markdown(d) ==
    [d EXCEPT !.markdown = Render(d.title, d.images, d.steps, d.flags)]

\* add_title, the line typed being raw
add_title(d, raw) ==
    LET new_title == Strip(raw)
    IN  IF new_title # <<>>
        THEN regenerate_markdown(
                 [d EXCEPT !.title = new_title,
                           !.entries = IF InSeq(<<"title", new_title>>, d.entries)
                                       THEN d.entries
                                       ELSE Append(d.entries, <<"title", new_title>>)])
        ELSE d

IsMachineImage(img) == img[1] = MACHINE_IMAGE

IsMachineEntry(e) == e[1] = "image" /\ e[2][1] = MACHINE_IMAGE

\* mutant of set_machine_image: the previous machine image is not evicted
set_machine_image_keep(d, image_path) ==
    regenerate_markdown(
        [d EXCEPT !.images = Append(d.images, <<MACHINE_IMAGE, image_path>>),
                  !.entries = Append(d.entries, <<"image", <<MACHINE_IMAGE, image_path>>>>)])

\* add_machine_image, once image_path names a file
set_machine_image(d, image_path) ==
    regenerate_markdown(
        [d EXCEPT !.images = Append(SelectSeq(d.images, LAMBDA img : ~IsMachineImage(img)),
                                    <<MACHINE_IMAGE, image_path>>),
                  !.entries = Append(SelectSeq(d.entries, LAMBDA e : ~IsMachineEntry(e)),
                                     <<"image", <<MACHINE_IMAGE, image_path>>>>)])

\* f"image_{len(self.images)}"
DefaultImageName(d) == <<"image_", Head(DigitText(Len(d.images)))>>

\* add_description from the image-name prompt on: image_path names a file
add_description_with_image(d, subtitle, description, oneliner, image_path, raw_name) ==
    LET image_name == Or(Strip(raw_name), DefaultImageName(d))
        d1 == [d EXCEPT !.images = Append(d.images, <<image_name, image_path>>)]
    IN  regenerate_markdown(
            [d1 EXCEPT !.steps = Append(d1.steps, <<subtitle, description, oneliner, image_name>>),
                       !.entries = Append(d1.entries, <<"description", Len(d1.steps)>>)])

\* add_description when no image is asked for
add_description_plain(d, subtitle, description, oneliner) ==
    regenerate_markdown(
        [d EXCEPT !.steps = Append(d.steps, <<subtitle, description, oneliner, None>>),
                  !.entries = Append(d.entries, <<"description", Len(d.steps)>>)])

\* mutant of add_flag: the markdown is not regenerated
add_flag_stale(d, raw, answer) ==
    LET real_flag == Strip(raw)
    IN  IF real_flag = <<>> THEN d
        ELSE IF Lower(answer) = <<"y">>
        THEN [d EXCEPT !.flags = Append(d.flags, real_flag),
                       !.entries = Append(d.entries, <<"flag", Len(d.flags)>>)]
        ELSE d

\* mutant of add_flag: the confirmation is not looked at
add_flag_unconfirmed(d, raw, answer) ==
    LET real_flag == Strip(raw)
    IN  IF real_flag = <<>> THEN d
        ELSE regenerate_markdown(
                 [d EXCEPT !.flags = Append(d.flags, real_flag),
                           !.entries = Append(d.entries, <<"flag", Len(d.flags)>>)])

\* add_flag, the lines typed being raw and answer
add_flag(d, raw, answer) ==
    LET real_flag == Strip(raw)
    IN  IF real_flag = <<>> THEN d
        ELSE IF Lower(answer) = <<"y">>
        THEN regenerate_markdown(
                 [d EXCEPT !.flags = Append(d.flags, real_flag),
                           !.entries = Append(d.entries, <<"flag", Len(d.flags)>>)])
        ELSE d

\* get_image_path is only printed

\* edit_description, choice 1
edit_subtitle(d, i, raw) ==
    LET st == d.steps[i + 1]
    IN  regenerate_markdown(
            [d EXCEPT !.steps[i + 1] = <<Or(Strip(raw), st[1]), st[2], st[3], st[4]>>])

\* edit_description, choice 2: new_description are the processed lines
edit_description_lines(d, i, new_description) ==
    LET st == d.steps[i + 1]
    IN  regenerate_markdown(
            [d EXCEPT !.steps[i + 1] =
                <<st[1], IF new_description # <<>> THEN new_description ELSE st[2], st[3], st[4]>>])

\* edit_description, choice 3
edit_oneliner(d, i, raw) ==
    LET st == d.steps[i + 1]
        new_oneliner == Strip(raw)
    IN  regenerate_markdown(
            [d EXCEPT !.steps[i + 1] =
                <<st[1], st[2], IF new_oneliner # <<>> THEN new_oneliner ELSE st[3], st[4]>>])

\* edit_description, choice 4, answer y, image_path names a file
edit_image_change(d, i, image_path, raw_name) ==
    LET st == d.steps[i + 1]
        image_name == st[4]
        new_image_name == Or(Strip(raw_name), Or(image_name, DefaultImageName(d)))
    IN  regenerate_markdown(
            [d EXCEPT !.images = Append(SelectSeq(d.images, LAMBDA img : img[1] # image_name),
                                        <<new_image_name, ExpandUser(image_path)>>),
                      !.steps[i + 1] = <<st[1], st[2], st[3], new_image_name>>])

\* edit_description, choice 4, answer neither y nor (n with an image set)
edit_image_remove(d, i) ==
    LET st == d.steps[i + 1]
        image_name == st[4]
    IN  regenerate_markdown(
            [d EXCEPT !.steps[i + 1] = <<st[1], st[2], st[3], None>>,
                      !.images = SelectSeq(d.images, LAMBDA img : img[1] # image_name)])

\* edit_flag, choice 1
edit_flag(d, i, raw) ==
    LET new_flag == Strip(raw)
    IN  IF new_flag # <<>>
        THEN regenerate_markdown([d EXCEPT !.flags[i + 1] = new_flag])
        ELSE d

\* add_footer
add_footer(d) == [d EXCEPT !.markdown = Append(d.markdown, Footer)]

\* the filename generate_writeup derives from the title
Filename(d) ==
    IF d.title = <<>> THEN <<"untitled_writeup", ".md">>
    ELSE Lower(ReplaceSpaces(d.title)) \o <<".md">>

\* ---------------------------------------------------------------- publisher

\* the files upload_to_github copies into machine_folder, in order:
\* the Markdown file, then <image_name>.png for every image
CopyPlan(file_name, imgs) ==
    <<file_name>> \o [i \in 1..Len(imgs) |-> imgs[i][1] \o <<".png">>]

GitCommands == <<"add", "commit", "push">>

\* mutant of RunGit: a failing command does not end the sequence
RECURSIVE RunGit_continue(_, _)
RunGit_continue(cmds, ok) ==
    IF cmds = <<>> THEN <<>>
    ELSE << <<Head(cmds), ok[Head(cmds)]>> >> \o RunGit_continue(Tail(cmds), ok)

\* the try block of upload_to_github: subprocess.run(..., check=True) raises on
\* the first failing command; ok[c] says whether command c succeeds
RECURSIVE RunGit(_, _)
RunGit(cmds, ok) ==
    IF cmds = <<>> THEN <<>>
    ELSE IF ok[Head(cmds)] THEN << <<Head(cmds), TRUE>> >> \o RunGit(Tail(cmds), ok)
    ELSE << <<Head(cmds), FALSE>> >>

\* os.path.splitext(os.path.basename(file_path))[0]
MachineFolder(target, file_name) == Join(target, SubSeq(file_name, 1, Len(file_name) - 1))

\* ------------------------------------------------------------------ session

NoPending == <<>>

WaitingPcs ==
    {"repo_path", "menu", "machine_image_path", "step_image_path", "edit_steps",
     "edit_description", "edit_image_path", "edit_flag", "nav"}

\* the prompts of the menu loop before option F is taken
MenuLoopPcs == WaitingPcs \ {"repo_path", "nav"}

\* before main() runs
InitSession ==
    /\ outcome = ""
    /\ title = NewDoc.title
    /\ images = NewDoc.images
    /\ steps = NewDoc.steps
    /\ flags = NewDoc.flags
    /\ entries = NewDoc.entries
    /\ markdown = NewDoc.markdown
    /\ caller = "menu"
    /\ index = 0
    /\ pending = NoPending
    /\ nav_stack = <<>>
    /\ written = <<>>
    /\ copied = <<>>
    /\ git_log = <<>>
    /\ repo_path = None
    /\ target_folder = None
    /\ ops = 0
    /\ inp = <<"start">>

Init ==
    /\ InitSession
    /\ pc = "repo_path"
    /\ arg = <<>>
    /\ result = <<>>

\* the handler leaves the document as d; the operations that change the
\* document are counted, and bounded by MaxOps
Commit(d) ==
    /\ d # Doc => ops < MaxOps
    /\ SetDoc(d)
    /\ ops' = IF d # Doc THEN ops + 1 ELSE ops

\* get_repo_path: one pass of its loop; main() then creates the generator
GetRepoPath ==
    /\ pc = "repo_path"
    /\ \E line \in RepoInputs :
        LET path == ExpandUser(Strip(line))
        IN  /\ inp' = <<"repo_path", line>>
            /\ IF IsRepo(path)
               THEN /\ repo_path' = path
                    /\ SetDoc(NewDoc)
                    /\ pc' = "menu"
               ELSE UNCHANGED <<repo_path, doc, pc>>
    /\ UNCHANGED <<outcome, locals, published, ops, fn>>

\* option 1: add_title
MenuAddTitle ==
    /\ pc = "menu"
    /\ \E line \in MenuInputs, raw \in TitleInputs :
        /\ Upper(line) = <<"1">>
        /\ Commit(add_title(Doc, raw))
        /\ inp' = <<"add_title", raw>>
    /\ UNCHANGED <<pc, outcome, locals, published, repo_path, fn>>

\* option 2: add_machine_image, up to its first prompt
MenuAddMachineImage ==
    /\ pc = "menu"
    /\ ops < MaxOps
    /\ \E line \in MenuInputs :
        /\ Upper(line) = <<"2">>
        /\ inp' = <<"menu", line>>
    /\ pc' = "machine_image_path"
    /\ caller' = "menu"
    /\ UNCHANGED <<outcome, doc, index, pending, published, repo_path, ops, fn>>

\* add_machine_image: one pass of its loop; when edit_steps called it,
\* edit_steps regenerates the markdown after it returns
MachineImagePath ==
    /\ pc = "machine_image_path"
    /\ \E line \in MachinePathInputs :
        LET image_path == ExpandUser(Strip(line))
            d == set_machine_image(Doc, image_path)
        IN  /\ inp' = <<"machine_image_path", line>>
            /\ IF IsFile(image_path)
               THEN /\ Commit(IF caller = "edit_steps" THEN regenerate_markdown(d) ELSE d)
                    /\ pc' = caller
                    /\ caller' = "menu"
               ELSE UNCHANGED <<doc, pc, ops, caller>>
    /\ UNCHANGED <<outcome, index, pending, published, repo_path, fn>>

\* option 3: add_description, up to the image path prompt or to its end
MenuAddDescription ==
    /\ pc = "menu"
    /\ ops < MaxOps
    /\ \E line \in MenuInputs, raw_subtitle \in SubtitleInputs, lines \in DescriptionInputs,
          url \in UrlInputs, add_oneliner \in YesNoInputs, raw_oneliner \in OnelinerInputs,
          add_image \in YesNoInputs :
        LET subtitle == Strip(raw_subtitle)
            description == ProcessLines(lines, url)
            oneliner == IF Lower(add_oneliner) = <<"y">> THEN Strip(raw_oneliner) ELSE None
        IN  /\ Upper(line) = <<"3">>
            /\ inp' = <<"add_description", add_image>>
            /\ IF Lower(add_image) = <<"y">>
               THEN /\ pending' = <<subtitle, description, oneliner>>
                    /\ pc' = "step_image_path"
                    /\ UNCHANGED <<doc, ops>>
               ELSE /\ Commit(add_description_plain(Doc, subtitle, description, oneliner))
                    /\ UNCHANGED <<pending, pc>>
    /\ UNCHANGED <<outcome, caller, index, published, repo_path, fn>>

\* add_description: one pass of its image path loop, and the rest of it
StepImagePath ==
    /\ pc = "step_image_path"
    /\ \E line \in StepPathInputs :
        LET image_path == ExpandUser(Strip(line))
        IN  IF IsFile(image_path)
            THEN \E raw_name \in ImageNameInputs :
                    /\ Commit(add_description_with_image(Doc, pending[1], pending[2],
                                                         pending[3], image_path, raw_name))
                    /\ inp' = <<"step_image_path", line, raw_name>>
                    /\ pending' = NoPending
                    /\ pc' = "menu"
            ELSE /\ inp' = <<"step_image_path", line>>
                 /\ UNCHANGED <<doc, pending, pc, ops>>
    /\ UNCHANGED <<outcome, caller, index, published, repo_path, fn>>

\* option 4: add_flag
MenuAddFlag ==
    /\ pc = "menu"
    /\ \E line \in MenuInputs, raw \in FlagInputs, answer \in ConfirmInputs :
        LET asked == Strip(raw) # <<>>
        IN  /\ Upper(line) = <<"4">>
            /\ Commit(add_flag(Doc, raw, answer))
            /\ inp' = IF asked THEN <<"add_flag", raw, answer>> ELSE <<"add_flag", raw>>
    /\ UNCHANGED <<pc, outcome, locals, published, repo_path, fn>>

\* option 5: edit_steps, up to its first prompt
MenuEditSteps ==
    /\ pc = "menu"
    /\ \E line \in MenuInputs :
        /\ Upper(line) = <<"5">>
        /\ inp' = <<"menu", line>>
    /\ pc' = IF entries = <<>> THEN "menu" ELSE "edit_steps"
    /\ UNCHANGED <<outcome, doc, locals, published, repo_path, ops, fn>>

\* option Q
MenuQuit ==
    /\ pc = "menu"
    /\ \E line \in MenuInputs :
        /\ Upper(line) = <<"Q">>
        /\ inp' = <<"menu", line>>
    /\ pc' = "done"
    /\ outcome' = "quit"
    /\ UNCHANGED <<doc, locals, published, repo_path, ops, fn>>

MenuOptions == {<<"1">>, <<"2">>, <<"3">>, <<"4">>, <<"5">>, <<"F">>, <<"Q">>}

\* any other line
MenuInvalid ==
    /\ pc = "menu"
    /\ \E line \in MenuInputs :
        /\ Upper(line) \notin MenuOptions
        /\ inp' = <<"menu", line>>
    /\ UNCHANGED <<pc, outcome, doc, locals, published, repo_path, ops, fn>>

\* mutant of MenuFinish: the loop is not left after the file is written
MenuFinish_no_break ==
    /\ pc = "menu"
    /\ \E line \in MenuInputs :
        /\ Upper(line) = <<"F">>
        /\ inp' = <<"menu", line>>
    /\ LET d == add_footer(regenerate_markdown(Doc))
       IN  /\ SetDoc(d)
           /\ written' = Append(written, <<Filename(d), d.markdown>>)
    /\ UNCHANGED <<pc, outcome, locals, nav_stack, copied, git_log, target_folder,
                   repo_path, ops, fn>>

\* option F: generate_writeup, then get_target_folder up to its first prompt
MenuFinish ==
    /\ pc = "menu"
    /\ \E line \in MenuInputs :
        /\ Upper(line) = <<"F">>
        /\ inp' = <<"menu", line>>
    /\ LET d == add_footer(regenerate_markdown(Doc))
       IN  /\ SetDoc(d)
           /\ written' = Append(written, <<Filename(d), d.markdown>>)
    /\ nav_stack' = <<repo_path>>
    /\ pc' = "nav"
    /\ UNCHANGED <<outcome, locals, copied, git_log, target_folder, repo_path, ops, fn>>

\* Ctrl+C at any prompt: main() catches KeyboardInterrupt and returns
Interrupt ==
    /\ pc \in WaitingPcs
    /\ inp' = <<"interrupt", pc>>
    /\ pc' = "done"
    /\ outcome' = "interrupt"
    /\ UNCHANGED <<doc, locals, published, repo_path, ops, fn>>

\* ------------------------------------------------------------- edit_steps

\* the entry an Edit Steps line selects: choice - 1 when it is within the list, else -1
SelectedEntry(choice) ==
    IF IsDigit(choice) /\ IntParses(choice)
          /\ 0 <= ToInt(choice) - 1 /\ ToInt(choice) - 1 < Len(entries)
    THEN ToInt(choice) - 1
    ELSE -1

\* b: back to the main menu
EditStepsBack ==
    /\ pc = "edit_steps"
    /\ \E line \in EditStepsInputs :
        /\ Lower(line) = <<"b">>
        /\ inp' = <<"edit_steps", line>>
    /\ pc' = "menu"
    /\ UNCHANGED <<outcome, doc, locals, published, repo_path, ops, fn>>

\* a Title entry: add_title, then regenerate_markdown
EditStepsTitle ==
    /\ pc = "edit_steps"
    /\ \E line \in EditStepsInputs, raw \in TitleInputs :
        LET choice == SelectedEntry(Lower(line))
        IN  /\ choice >= 0
            /\ entries[choice + 1][1] = "title"
            /\ Commit(regenerate_markdown(add_title(Doc, raw)))
            /\ inp' = <<"edit_title", raw>>
    /\ UNCHANGED <<pc, outcome, locals, published, repo_path, fn>>

\* an Image entry: add_machine_image, up to its first prompt
EditStepsImage ==
    /\ pc = "edit_steps"
    /\ ops < MaxOps
    /\ \E line \in EditStepsInputs :
        LET choice == SelectedEntry(Lower(line))
        IN  /\ choice >= 0
            /\ entries[choice + 1][1] = "image"
            /\ inp' = <<"edit_steps", line>>
    /\ pc' = "machine_image_path"
    /\ caller' = "edit_steps"
    /\ UNCHANGED <<outcome, doc, index, pending, published, repo_path, ops, fn>>

\* a DescriptionRef entry: edit_description(value), up to its first prompt
EditStepsDescription ==
    /\ pc = "edit_steps"
    /\ \E line \in EditStepsInputs :
        LET choice == SelectedEntry(Lower(line))
        IN  /\ choice >= 0
            /\ entries[choice + 1][1] = "description"
            /\ index' = entries[choice + 1][2]
            /\ inp' = <<"edit_steps", line>>
    /\ pc' = "edit_description"
    /\ UNCHANGED <<outcome, doc, caller, pending, published, repo_path, ops, fn>>

\* a FlagRef entry: edit_flag(value), up to its first prompt
EditStepsFlag ==
    /\ pc = "edit_steps"
    /\ \E line \in EditStepsInputs :
        LET choice == SelectedEntry(Lower(line))
        IN  /\ choice >= 0
            /\ entries[choice + 1][1] = "flag"
            /\ index' = entries[choice + 1][2]
            /\ inp' = <<"edit_steps", line>>
    /\ pc' = "edit_flag"
    /\ UNCHANGED <<outcome, doc, caller, pending, published, repo_path, ops, fn>>

\* a line that is neither b nor digits, or a number outside the list
EditStepsInvalid ==
    /\ pc = "edit_steps"
    /\ \E line \in EditStepsInputs :
        LET choice == Lower(line)
        IN  /\ choice # <<"b">>
            /\ IsDigit(choice) => IntParses(choice)
            /\ SelectedEntry(choice) < 0
            /\ inp' = <<"edit_steps", line>>
    /\ UNCHANGED <<pc, outcome, doc, locals, published, repo_path, ops, fn>>

\* a line str.isdigit() accepts and int() rejects: the ValueError leaves
\* edit_steps and the menu loop, and main() catches it
EditStepsValueError ==
    /\ pc = "edit_steps"
    /\ \E line \in EditStepsInputs :
        LET choice == Lower(line)
        IN  /\ choice # <<"b">>
            /\ IsDigit(choice)
            /\ ~IntParses(choice)
            /\ inp' = <<"edit_steps", line>>
    /\ pc' = "done"
    /\ outcome' = "error"
    /\ UNCHANGED <<doc, locals, published, repo_path, ops, fn>>

\* -------------------------------------------------------- edit_description

\* b: back to edit_steps, which regenerates the markdown
EditDescriptionBack ==
    /\ pc = "edit_description"
    /\ \E line \in SubmenuInputs :
        /\ Lower(line) = <<"b">>
        /\ inp' = <<"edit_description", line>>
    /\ Commit(regenerate_markdown(Doc))
    /\ index' = 0
    /\ pc' = "edit_steps"
    /\ UNCHANGED <<outcome, caller, pending, published, repo_path, fn>>

\* 1: the subtitle
EditDescriptionSubtitle ==
    /\ pc = "edit_description"
    /\ \E line \in SubmenuInputs, raw \in EditSubtitleInputs :
        /\ Lower(line) = <<"1">>
        /\ Commit(edit_subtitle(Doc, index, raw))
        /\ inp' = <<"edit_subtitle", raw>>
    /\ UNCHANGED <<pc, outcome, locals, published, repo_path, fn>>

\* 2: the description lines
EditDescriptionLines ==
    /\ pc = "edit_description"
    /\ \E line \in SubmenuInputs, lines \in EditDescriptionInputs, url \in UrlInputs :
        /\ Lower(line) = <<"2">>
        /\ Commit(edit_description_lines(Doc, index, ProcessLines(lines, url)))
        /\ inp' = <<"edit_lines", lines>>
    /\ UNCHANGED <<pc, outcome, locals, published, repo_path, fn>>

\* 3: the one-liner
EditDescriptionOneliner ==
    /\ pc = "edit_description"
    /\ \E line \in SubmenuInputs, raw \in EditOnelinerInputs :
        /\ Lower(line) = <<"3">>
        /\ Commit(edit_oneliner(Doc, index, raw))
        /\ inp' = <<"edit_oneliner", raw>>
    /\ UNCHANGED <<pc, outcome, locals, published, repo_path, fn>>

\* 4: the image, up to the path prompt or to the end of the pass
EditDescriptionImage ==
    /\ pc = "edit_description"
    /\ \E line \in SubmenuInputs, answer \in EditImageAnswers :
        LET add_image == Lower(answer)
            image_name == steps[index + 1][4]
        IN  /\ Lower(line) = <<"4">>
            /\ inp' = <<"edit_image", answer>>
            /\ IF add_image = <<"y">>
               THEN /\ ops < MaxOps
                    /\ pc' = "edit_image_path"
                    /\ UNCHANGED <<doc, ops>>
               ELSE IF add_image = <<"n">> /\ Truthy(image_name)
               THEN /\ Commit(regenerate_markdown(Doc))
                    /\ UNCHANGED pc
               ELSE /\ Commit(edit_image_remove(Doc, index))
                    /\ UNCHANGED pc
    /\ UNCHANGED <<outcome, locals, published, repo_path, fn>>

\* 4, answer y: the path prompt and the rest of the pass
EditImagePath ==
    /\ pc = "edit_image_path"
    /\ \E line \in EditPathInputs :
        LET image_path == Strip(line)
        IN  IF image_path # <<>> /\ IsFile(ExpandUser(image_path))
            THEN \E raw_name \in ImageNameInputs :
                    /\ Commit(edit_image_change(Doc, index, image_path, raw_name))
                    /\ inp' = <<"edit_image_path", line, raw_name>>
            ELSE /\ Commit(regenerate_markdown(Doc))
                 /\ inp' = <<"edit_image_path", line>>
    /\ pc' = "edit_description"
    /\ UNCHANGED <<outcome, locals, published, repo_path, fn>>

\* any other line: the pass still ends with regenerate_markdown
EditDescriptionInvalid ==
    /\ pc = "edit_description"
    /\ \E line \in SubmenuInputs :
        /\ Lower(line) \notin {<<"b">>, <<"1">>, <<"2">>, <<"3">>, <<"4">>}
        /\ inp' = <<"edit_description", line>>
    /\ Commit(regenerate_markdown(Doc))
    /\ UNCHANGED <<pc, outcome, locals, published, repo_path, fn>>

\* --------------------------------------------------------------- edit_flag

\* b: back to edit_steps, which regenerates the markdown
EditFlagBack ==
    /\ pc = "edit_flag"
    /\ \E line \in SubmenuInputs :
        /\ Lower(line) = <<"b">>
        /\ inp' = <<"edit_flag", line>>
    /\ Commit(regenerate_markdown(Doc))
    /\ index' = 0
    /\ pc' = "edit_steps"
    /\ UNCHANGED <<outcome, caller, pending, published, repo_path, fn>>

\* 1: the flag
EditFlagValue ==
    /\ pc = "edit_flag"
    /\ \E line \in SubmenuInputs, raw \in EditFlagInputs :
        /\ Lower(line) = <<"1">>
        /\ Commit(edit_flag(Doc, index, raw))
        /\ inp' = <<"edit_flag_value", raw>>
    /\ UNCHANGED <<pc, outcome, locals, published, repo_path, fn>>

\* any other line
EditFlagInvalid ==
    /\ pc = "edit_flag"
    /\ \E line \in SubmenuInputs :
        /\ Lower(line) \notin {<<"b">>, <<"1">>}
        /\ inp' = <<"edit_flag", line>>
    /\ UNCHANGED <<pc, outcome, doc, locals, published, repo_path, ops, fn>>

\* -------------------------------------------------------- folder navigator

\* what one line typed at recursive_folder_selection's prompt asks for
NavChoice(line, folders) ==
    IF Lower(line) = <<"s">> THEN "select"
    ELSE IF Lower(line) = <<"b">> THEN "back"
    ELSE IF ~IntParses(line) THEN "invalid"
    ELSE LET choice == ToInt(line) - 1
         IN  IF choice < 0 \/ choice >= Len(folders) + 2 THEN "invalid"
             ELSE IF choice = Len(folders) THEN "select"
             ELSE IF choice = Len(folders) + 1 THEN "back"
             ELSE "descend"

base_path == nav_stack[Len(nav_stack)]

\* a subdirectory is picked: the recursive call
NavDescend ==
    /\ pc = "nav"
    /\ \E line \in NavInputs :
        LET folders == Subdirs(base_path)
        IN  /\ NavChoice(line, folders) = "descend"
            /\ nav_stack' = Append(nav_stack, Join(base_path, folders[ToInt(line)]))
            /\ inp' = <<"nav", line>>
    /\ UNCHANGED <<pc, outcome, doc, locals, written, copied, git_log, target_folder,
                   repo_path, ops, fn>>

\* the current folder is selected: every pending call returns it, and so does
\* get_target_folder
NavSelect ==
    /\ pc = "nav"
    /\ \E line \in NavInputs :
        /\ NavChoice(line, Subdirs(base_path)) = "select"
        /\ inp' = <<"nav", line>>
    /\ target_folder' = base_path
    /\ nav_stack' = <<>>
    /\ pc' = "upload"
    /\ UNCHANGED <<outcome, doc, locals, written, copied, git_log, repo_path, ops, fn>>

\* mutant of NavBack: go back abandons the whole navigation
NavBack_unwind_all ==
    /\ pc = "nav"
    /\ \E line \in NavInputs :
        /\ NavChoice(line, Subdirs(base_path)) = "back"
        /\ inp' = <<"nav", line>>
    /\ nav_stack' = <<>>
    /\ pc' = "done"
    /\ outcome' = "finished"
    /\ UNCHANGED <<doc, locals, written, copied, git_log, target_folder, repo_path, ops, fn>>

\* go back: the call returns None; its caller prompts again, and at the
\* repository root get_target_folder returns None and main() leaves the loop
NavBack ==
    /\ pc = "nav"
    /\ \E line \in NavInputs :
        /\ NavChoice(line, Subdirs(base_path)) = "back"
        /\ inp' = <<"nav", line>>
    /\ nav_stack' = SubSeq(nav_stack, 1, Len(nav_stack) - 1)
    /\ IF Len(nav_stack) = 1
       THEN pc' = "done" /\ outcome' = "finished"
       ELSE UNCHANGED <<pc, outcome>>
    /\ UNCHANGED <<doc, locals, written, copied, git_log, target_folder, repo_path, ops, fn>>

\* not a number, or a number outside the list: the loop prompts again
NavInvalid ==
    /\ pc = "nav"
    /\ \E line \in NavInputs :
        /\ NavChoice(line, Subdirs(base_path)) = "invalid"
        /\ inp' = <<"nav", line>>
    /\ UNCHANGED <<pc, outcome, doc, locals, published, repo_path, ops, fn>>

\* upload_to_github: the copies, then the git commands; ok[c] says whether
\* git command c succeeds.  It reads no input.
UploadToGithub ==
    /\ pc = "upload"
    /\ LET file_name == written[Len(written)][1]
           plan == CopyPlan(file_name, images)
           machine_folder == MachineFolder(target_folder, file_name)
       IN  \E ok \in [{"add", "commit", "push"} -> BOOLEAN] :
            /\ copied' = copied \o [i \in 1..Len(plan) |-> <<machine_folder, plan[i]>>]
            /\ git_log' = git_log \o RunGit(GitCommands, ok)
    /\ inp' = <<"upload">>
    /\ pc' = "done"
    /\ outcome' = "finished"
    /\ UNCHANGED <<doc, locals, nav_stack, written, target_folder, repo_path, ops, fn>>

\* ----------------------------------------------------------- specification

Next ==
    \/ GetRepoPath
    \/ MenuAddTitle
    \/ MenuAddMachineImage
    \/ MachineImagePath
    \/ MenuAddDescription
    \/ StepImagePath
    \/ MenuAddFlag
    \/ MenuEditSteps
    \/ MenuQuit
    \/ MenuInvalid
    \/ MenuFinish
    \/ Interrupt
    \/ EditStepsBack
    \/ EditStepsTitle
    \/ EditStepsImage
    \/ EditStepsDescription
    \/ EditStepsFlag
    \/ EditStepsInvalid
    \/ EditStepsValueError
    \/ EditDescriptionBack
    \/ EditDescriptionSubtitle
    \/ EditDescriptionLines
    \/ EditDescriptionOneliner
    \/ EditDescriptionImage
    \/ EditImagePath
    \/ EditDescriptionInvalid
    \/ EditFlagBack
    \/ EditFlagValue
    \/ EditFlagInvalid
    \/ NavDescend
    \/ NavSelect
    \/ NavBack
    \/ NavInvalid
    \/ UploadToGithub

Spec == Init /\ [][Next]_vars

\* ------------------------------------------- the pure functions on their own

\* all texts over alphabet of length at most n
Texts(alphabet, n) == UNION {[1..k -> alphabet] : k \in 0..n}

FlagAlphabet == {"a", "b", "*"}

LineAlphabet == {"[", "]", "a", "b"}

InitRedact ==
    /\ InitSession
    /\ pc = "call"
    /\ arg \in Texts(FlagAlphabet, MaxFlagLen)
    /\ result = None

\* the redaction of regenerate_markdown applied to arg
ApplyRedact ==
    /\ pc = "call"
    /\ result' = Redact(arg)
    /\ pc' = "returned"
    /\ UNCHANGED <<outcome, doc, locals, published, repo_path, ops, inp, arg>>

SpecRedact == InitRedact /\ [][ApplyRedact]_vars

InitLinker ==
    /\ InitSession
    /\ pc = "call"
    /\ arg \in Texts(LineAlphabet, MaxLineLen)
    /\ result = None

\* process_references applied to arg
ApplyLinker ==
    /\ pc = "call"
    /\ \E url \in UrlInputs : result' = process_references(arg, url)
    /\ pc' = "returned"
    /\ UNCHANGED <<outcome, doc, locals, published, repo_path, ops, inp, arg>>

SpecLinker == InitLinker /\ [][ApplyLinker]_vars

\* ------------------------------------------------------------------ claims

TitleEntries == {i \in 1..Len(entries) : entries[i][1] = "title"}

MachineEntries == {i \in 1..Len(entries) : IsMachineEntry(entries[i])}

MachineImages == {i \in 1..Len(images) : IsMachineImage(images[i])}

\* C1: whenever the menu waits for a top-level option, self.markdown is the
\* rendering of the current title, images, steps and flags
C1_MarkdownIsRender ==
    pc = "menu" => markdown = Render(title, images, steps, flags)

\* C1 witness: back at the menu from Edit Steps with a title, a step and a flag
\* in the document
C1_Witness ==
    /\ pc = "menu"
    /\ inp[1] = "edit_steps"
    /\ title # <<>>
    /\ steps # <<>>
    /\ flags # <<>>
    /\ markdown = Render(title, images, steps, flags)

\* C2: the entry sequence holds at most one Title entry
C2_AtMostOneTitleEntry == Cardinality(TitleEntries) <= 1

\* the step just taken read a line that fails validation: an empty title, an
\* empty flag, an unrecognized menu option, or an Edit Steps line that is
\* neither b nor the number of an entry
ValidationErrorStep ==
    \/ inp'[1] \in {"add_title", "edit_title", "add_flag", "edit_flag_value"}
          /\ Strip(inp'[2]) = <<>>
    \/ pc = "menu" /\ inp'[1] = "menu" /\ Upper(inp'[2]) \notin MenuOptions
    \/ pc = "edit_steps" /\ inp'[1] = "edit_steps" /\ Lower(inp'[2]) # <<"b">>
          /\ (\/ ~IntParses(Lower(inp'[2]))
              \/ ToInt(Lower(inp'[2])) - 1 \notin 0..(Len(entries) - 1))

\* C3: a step that reads an invalid line leaves the document as it was and
\* shows the same menu again
C3_ValidationErrorsChangeNothing ==
    [][ValidationErrorStep => (doc' = doc /\ pc' = pc)]_vars

\* the machine image path just read names a file
MachineImageJustSet ==
    /\ inp[1] = "machine_image_path"
    /\ IsFile(ExpandUser(Strip(inp[2])))

\* C4: right after a successful add_machine_image there is exactly one
\* machine_image entry and exactly one machine_image image, both with the path
\* just given
C4_OneMachineImageAfterSet ==
    MachineImageJustSet =>
        /\ Cardinality(MachineEntries) = 1
        /\ Cardinality(MachineImages) = 1
        /\ \A i \in MachineImages : images[i][2] = ExpandUser(Strip(inp[2]))
        /\ \A i \in MachineEntries : entries[i][2][2] = ExpandUser(Strip(inp[2]))

\* C4 witness: a machine image was set while a step's image was named
\* machine_image, so an image of that name was there to evict
C4_Witness ==
    /\ MachineImageJustSet
    /\ \E i \in 1..Len(steps) : steps[i][4] = MACHINE_IMAGE
    /\ Len(entries) >= 2

\* C5: at most one image and at most one Image entry is named machine_image,
\* so the rendering holds at most one machine-image block
C5_AtMostOneMachineImage ==
    /\ Cardinality(MachineImages) <= 1
    /\ Cardinality(MachineEntries) <= 1
    /\ Cardinality({i \in 1..Len(markdown) : markdown[i] = MachineBlock}) <= 1

\* the step just taken is add_flag
AddFlagStep == pc = "menu" /\ inp'[1] = "add_flag"

\* add_flag appended exactly Strip(raw) and its FlagRef entry
FlagAppended ==
    /\ flags' = Append(flags, Strip(inp'[2]))
    /\ entries' = Append(entries, <<"flag", Len(flags)>>)

\* C6 as stated: flags and entries change only when the flag is not empty and
\* the answer is the line y
C6_OnlyOnLowercaseY ==
    [][AddFlagStep =>
        IF Len(inp') = 3 /\ inp'[3] = <<"y">>
        THEN FlagAppended
        ELSE flags' = flags /\ entries' = entries]_vars

\* C6 amended: flags and entries change only when the flag is not empty and
\* the answer is y in either case; then exactly one flag and one FlagRef entry
\* with the new flag's index are appended
C6_OnlyOnConfirmation ==
    [][AddFlagStep =>
        IF Len(inp') = 3 /\ inp'[3] \in {<<"y">>, <<"Y">>}
        THEN FlagAppended
        ELSE flags' = flags /\ entries' = entries]_vars

\* C6 witness: a second flag was just confirmed and appended
C6_Witness ==
    /\ inp[1] = "add_flag"
    /\ Len(inp) = 3
    /\ Len(flags) = 2
    /\ entries[Len(entries)] = <<"flag", 1>>

\* the copies upload_to_github makes for the file written and the current images
AllCopies ==
    [i \in 1..(Len(images) + 1) |->
        <<MachineFolder(target_folder, written[1][1]), CopyPlan(written[1][1], images)[i]>>]

\* C7: the git commands run are a prefix of add, commit, push, each once, all
\* but the last one run having succeeded, none before every file is copied; the
\* sequence ends at the first failure or after push, and the copies remain
C7_GitSequence ==
    /\ Len(git_log) <= Len(GitCommands)
    /\ \A i \in 1..Len(git_log) : git_log[i][1] = GitCommands[i]
    /\ \A i \in 1..(Len(git_log) - 1) : git_log[i][2]
    /\ git_log # <<>> => copied = AllCopies
    /\ pc = "done" /\ copied # <<>> =>
          /\ copied = AllCopies
          /\ git_log # <<>>
          /\ Len(git_log) = Len(GitCommands) \/ ~git_log[Len(git_log)][2]

\* C7 witness: the push failed after add and commit succeeded, with the
\* Markdown file and two images copied
C7_Witness ==
    /\ git_log = << <<"add", TRUE>>, <<"commit", TRUE>>, <<"push", FALSE>> >>
    /\ Len(copied) = 3

\* C8, in every state: no file is written while the menu loop runs, nor in a
\* session ended by Q or by an interrupt at a prompt of the menu loop, and
\* never more than one
C8_State ==
    /\ Len(written) <= 1
    /\ pc \in MenuLoopPcs \cup {"repo_path"} => written = <<>>
    /\ outcome = "quit" => written = <<>>
    /\ outcome = "interrupt" /\ inp[2] \in MenuLoopPcs => written = <<>>

\* C8, in every step of the main menu: an unrecognized option keeps the loop at
\* the menu, Q ends the session, F writes the file and leaves the loop
C8_Step ==
    pc = "menu" /\ inp'[1] = "menu" =>
        /\ Upper(inp'[2]) \notin MenuOptions => pc' = "menu" /\ written' = written
        /\ Upper(inp'[2]) = <<"Q">> => pc' = "done" /\ written' = written
        /\ Upper(inp'[2]) = <<"F">> => pc' \notin MenuLoopPcs /\ Len(written') = 1

\* C8: the output file is written only by option F and at most once; Q and an
\* interrupt in the menu loop write none; only F and Q leave the loop
C8_FileOnlyOnFinish == []C8_State /\ [][C8_Step]_vars

\* C8 witness: a session that finished with its file written, footer last
C8_Witness ==
    /\ pc = "done"
    /\ outcome = "finished"
    /\ Len(written) = 1
    /\ title # <<>>
    /\ written[1][2] = Append(Render(title, images, steps, flags), Footer)

\* C9: the redaction of a flag of length L has length L, keeps the first
\* floor(L/2) characters and has * in all the others
C9_Redaction ==
    pc = "returned" =>
        LET L == Len(arg)
            visible == L \div 2
        IN  /\ Len(result) = L
            /\ \A i \in 1..visible : result[i] = arg[i]
            /\ \A i \in (visible + 1)..L : result[i] = "*"

\* C9 witness: a flag of odd length without stars was redacted
C9_Witness ==
    /\ pc = "returned"
    /\ arg = <<"a", "b", "a">>
    /\ result = <<"a", "*", "*">>

\* the tokens of the claim: the first [ is paired with the first ] after it,
\* and the scan goes on after that ]
RECURSIVE BracketTokens(_)
BracketTokens(text) ==
    LET start == Find(text, "[")
        rest == Slice(text, start + 1, Len(text))
        end == Find(rest, "]")
    IN  IF start < 0 \/ end < 0 THEN <<>>
        ELSE <<Slice(rest, 0, end)>> \o BracketTokens(Slice(rest, end + 1, Len(rest)))

\* s without the repetitions of an earlier element
RECURSIVE Distinct(_)
Distinct(s) ==
    IF s = <<>> THEN <<>>
    ELSE LET front == Distinct(SubSeq(s, 1, Len(s) - 1))
         IN  IF InSeq(s[Len(s)], front) THEN front ELSE Append(front, s[Len(s)])

\* C10: the words process_references prompts for are the distinct bracketed
\* tokens of the line, each once
C10_PromptsAreBracketTokens ==
    pc = "returned" => result.prompts = Distinct(BracketTokens(arg))

\* a path prompt has just read a line that names no file (no repository, at
\* the repository prompt)
ResourceErrorStep ==
    \/ pc = "repo_path" /\ inp'[1] = "repo_path"
          /\ ~IsRepo(ExpandUser(Strip(inp'[2])))
    \/ pc = "machine_image_path" /\ inp'[1] = "machine_image_path"
          /\ ~IsFile(ExpandUser(Strip(inp'[2])))
    \/ pc = "step_image_path" /\ inp'[1] = "step_image_path"
          /\ ~IsFile(ExpandUser(Strip(inp'[2])))
    \/ pc = "edit_image_path" /\ inp'[1] = "edit_image_path"
          /\ ~IsFile(ExpandUser(Strip(inp'[2])))

\* C11: after a path that names no file the same prompt asks again, and the
\* document and the edit in progress are as they were, at each of the four
\* path prompts
C11_ResourceErrorsReprompt ==
    [][ResourceErrorStep => (pc' = pc /\ doc' = doc /\ locals' = locals)]_vars

\* the navigator has just read a line
NavStep == pc = "nav" /\ inp'[1] = "nav"

\* the line asks to go back, in a folder with n subdirectories
GoBackLine(line, n) ==
    \/ Lower(line) = <<"b">>
    \/ Lower(line) # <<"s">> /\ IntParses(line) /\ ToInt(line) = n + 2

\* the line is no number, or a number outside 1..n+2
InvalidLine(line, n) ==
    /\ Lower(line) \notin {<<"s">>, <<"b">>}
    /\ ~IntParses(line) \/ ToInt(line) < 1 \/ ToInt(line) > n + 2

\* the folders of the pending calls: the repository root, then each folder a
\* subdirectory of the one before
DescentChain ==
    /\ nav_stack[1] = repo_path
    /\ \A i \in 1..(Len(nav_stack) - 1) :
        \E k \in 1..Len(Subdirs(nav_stack[i])) :
            nav_stack[i + 1] = Join(nav_stack[i], Subdirs(nav_stack[i])[k])

C12_State == pc = "nav" => (nav_stack # <<>> /\ DescentChain)

C12_Step ==
    NavStep =>
        LET depth == Len(nav_stack)
            n == Len(Subdirs(base_path))
            line == inp'[2]
        IN  /\ (GoBackLine(line, n) /\ depth > 1) =>
                /\ pc' = "nav"
                /\ nav_stack' = SubSeq(nav_stack, 1, depth - 1)
                /\ target_folder' = target_folder
            /\ InvalidLine(line, n) =>
                /\ pc' = "nav"
                /\ nav_stack' = nav_stack
                /\ target_folder' = target_folder
            /\ (pc' # "nav" /\ target_folder' = None) =>
                (GoBackLine(line, n) /\ depth = 1)
            /\ (pc' # "nav" /\ target_folder' # None) =>
                target_folder' = base_path

\* C12: go back below the root returns to the parent folder's prompt, one
\* level up; a line that is no number or is out of range prompts again in the
\* same folder; the navigation ends without a selection only on go back at
\* the root; a selection is the folder the descents from the root led to
C12_FolderNavigator == []C12_State /\ [][C12_Step]_vars

\* go back two levels below the root has returned to the first level
C12_Witness ==
    /\ pc = "nav"
    /\ inp[1] = "nav"
    /\ GoBackLine(inp[2], 0)
    /\ Len(nav_stack) = 2

\* the names of the image table
ImageNames == {images[j][1] : j \in 1..Len(images)}

\* C13: every step whose image name is set has an image with that name in
\* the image table, so each step image block of the rendering names a file
\* the upload copies
C13_StepImagesInTable ==
    \A i \in 1..Len(steps) : Truthy(steps[i][4]) => steps[i][4] \in ImageNames

====
